---------------------------- MODULE Spec2Model ----------------------------
(***************************************************************************)
(* Limit order book (OrderBook), price-time matching engine                *)
(* (MatchingEngine) of kaitlynjpak/lob-simulator.                          *)
(*                                                                         *)
(* The book is the triple bids / asks / index of struct OrderBook; a level *)
(* queue (std::deque<Order>) is a sequence whose element 1 is the front,   *)
(* so the C++ position p is the sequence position p + 1.  A std::map is a  *)
(* function whose DOMAIN is its key set; a key may map to the empty        *)
(* sequence (an empty level that was not erased).                          *)
(* Order::ts and Fill::ts are carried by the code but never read by the    *)
(* book or the engine; they are left out of the records.                   *)
(***************************************************************************)
EXTENDS Integers, Sequences, FiniteSets, TLC

VARIABLES bids, asks, index, next_id, out, last, pre, n_ret, track, main, sims

vars == <<bids, asks, index, next_id, out, last, pre, n_ret, track, main, sims>>

\* the book and engine of main's demo, and what is recorded about its calls
bookvars == <<bids, asks, index, next_id, out, last, pre, n_ret, track>>

\* the rest of the program's state, which the book and engine calls leave alone
outside == <<main, sims>>

---------------------------------------------------------------------------
(* Bounds of the model *)

MaxPrice == 2
MaxQty == 2
MaxId == 2
MaxArgs == 3
MaxArgNumber == 2
MaxEvents == 2
MaxOffset == 2
MaxLongEvents == 3
MaxSubmits == 3

Prices == 0..MaxPrice      \* 0 is the price the code rejects (px <= 0)
Qtys == 0..MaxQty          \* 0 is the quantity the code rejects (q <= 0)
Ids == 1..MaxId            \* ids a caller hands to add_limit / cancel
Sides == {"Buy", "Sell"}
OrdTypes == {"Limit", "Market", "Cancel"}

---------------------------------------------------------------------------
(* std::map / std::optional helpers *)

MapErase(m, k) == [x \in (DOMAIN m) \ {k} |-> m[x]]

MapPut(m, k, v) == [x \in (DOMAIN m) \cup {k} |-> IF x = k THEN v ELSE m[x]]

MapAt(m, k) == IF k \in DOMAIN m THEN m[k] ELSE <<>>

SetMin(S) == CHOOSE x \in S : \A y \in S : x <= y

SetMax(S) == CHOOSE x \in S : \A y \in S : x >= y

nullopt == <<>>

Some(v) == <<v>>

Min2(a, b) == IF b < a THEN b ELSE a

EraseAt_front(q, p) == Tail(q)

EraseAt_swap_pop(q, p) ==
  IF p + 1 = Len(q) THEN SubSeq(q, 1, p)
  ELSE SubSeq([q EXCEPT ![p + 1] = q[Len(q)]], 1, Len(q) - 1)

EraseAt(q, p) == SubSeq(q, 1, p) \o SubSeq(q, p + 2, Len(q))

---------------------------------------------------------------------------
(* OrderBook *)

Book(b, a, i) == [bids |-> b, asks |-> a, index |-> i]

bids_begin(b) == SetMax(DOMAIN b)

asks_begin(a) == SetMin(DOMAIN a)

best_bid(B) == IF DOMAIN B.bids = {} THEN 0 ELSE bids_begin(B.bids)

best_ask(B) == IF DOMAIN B.asks = {} THEN 0 ELSE asks_begin(B.asks)

mid(B) ==
  IF DOMAIN B.bids = {} \/ DOMAIN B.asks = {} THEN 0
  ELSE (best_bid(B) + best_ask(B)) \div 2

add_limit_throws_noqty(B, o) ==
  \/ o.type # "Limit"
  \/ o.id \in DOMAIN B.index
  \/ o.limit_price <= 0

add_limit_throws(B, o) ==
  \/ o.type # "Limit"
  \/ o.id \in DOMAIN B.index
  \/ o.qty <= 0
  \/ o.limit_price <= 0

push_front(q, o) == <<o>> \o q

push_back(q, o) == Append(q, o)

\* the book after add_limit(o) returns normally
add_limit(B, o) ==
  IF o.side = "Buy"
  THEN LET q == push_back(MapAt(B.bids, o.limit_price), o)
           pos == Len(q) - 1
       IN  [B EXCEPT !.bids = MapPut(B.bids, o.limit_price, q),
                     !.index = MapPut(B.index, o.id,
                                 [side |-> "Buy", px |-> o.limit_price, pos |-> pos])]
  ELSE LET q == push_back(MapAt(B.asks, o.limit_price), o)
           pos == Len(q) - 1
       IN  [B EXCEPT !.asks = MapPut(B.asks, o.limit_price, q),
                     !.index = MapPut(B.index, o.id,
                                 [side |-> "Sell", px |-> o.limit_price, pos |-> pos])]

\* for (p = from; p < q.size(); ++p) { it = index.find(q[p].id); if found, it->pos = p }
RECURSIVE reindex_from(_, _, _)
reindex_from(q, idx, p) ==
  IF p < Len(q)
  THEN LET id == q[p + 1].id
       IN  reindex_from(q,
                        IF id \in DOMAIN idx THEN [idx EXCEPT ![id].pos = p] ELSE idx,
                        p + 1)
  ELSE idx

erase_if_empty_never(m, px, q) == MapPut(m, px, q)

\* q is the level at px after the call's mutations: if (q.empty()) m.erase(px)
erase_if_empty(m, px, q) == IF q = <<>> THEN MapErase(m, px) ELSE MapPut(m, px, q)

cancel_reindex_none(q, idx, pos) == idx

cancel_reindex_from_next(q, idx, pos) == reindex_from(q, idx, pos + 1)

cancel_reindex(q, idx, pos) == reindex_from(q, idx, pos)

cancel_not_found_clears(B, id) == Book(<<>>, <<>>, <<>>)

\* if (it == index.end()) return;
cancel_not_found(B, id) == B

\* the defensive branches of cancel for an id that is in the index:
\* if (lvl_it == end) { index.erase(it); return; }
\* if (pos >= q.size()) { index.erase(it); return; }
cancel_stale(B, id) ==
  LET m == IF B.index[id].side = "Buy" THEN B.bids ELSE B.asks
  IN  \/ B.index[id].px \notin DOMAIN m
      \/ B.index[id].pos >= Len(m[B.index[id].px])

cancel(B, id) ==
  IF id \notin DOMAIN B.index THEN cancel_not_found(B, id)
  ELSE IF cancel_stale(B, id) THEN [B EXCEPT !.index = MapErase(B.index, id)]
  ELSE
    LET side == B.index[id].side
        px == B.index[id].px
        pos == B.index[id].pos
    IN  IF side = "Buy"
        THEN LET q == EraseAt(B.bids[px], pos)
                 idx == cancel_reindex(q, B.index, pos)
             IN  [B EXCEPT !.bids = erase_if_empty(B.bids, px, q),
                           !.index = MapErase(idx, id)]
        ELSE LET q == EraseAt(B.asks[px], pos)
                 idx == cancel_reindex(q, B.index, pos)
             IN  [B EXCEPT !.asks = erase_if_empty(B.asks, px, q),
                           !.index = MapErase(idx, id)]

check_side(bookSide, idx, side) ==
  \A px \in DOMAIN bookSide : \A p \in 0..(Len(bookSide[px]) - 1) :
    LET o == bookSide[px][p + 1]
    IN  /\ o.id \in DOMAIN idx
        /\ idx[o.id].side = side
        /\ idx[o.id].px = px
        /\ idx[o.id].pos = p

self_check(B) ==
  /\ check_side(B.bids, B.index, "Buy")
  /\ check_side(B.asks, B.index, "Sell")
  /\ \A id \in DOMAIN B.index :
       LET e == B.index[id]
           m == IF e.side = "Buy" THEN B.bids ELSE B.asks
       IN  /\ e.px \in DOMAIN m
           /\ e.pos < Len(m[e.px])
           /\ m[e.px][e.pos + 1].id = id

---------------------------------------------------------------------------
(* MatchingEngine *)

Fill(taker_id, maker_id, taker_side, price, qty) ==
  [taker_id |-> taker_id, maker_id |-> maker_id, taker_side |-> taker_side,
   price |-> price, qty |-> qty]

reindex_after_pop_front_none(q, idx) == idx

reindex_after_pop_front(q, idx) == reindex_from(q, idx, 0)

traded_all_of_maker(remaining, maker_qty) == maker_qty

traded_qty(remaining, maker_qty) == Min2(remaining, maker_qty)

\* the inner while loop of match_buy / match_sell on the level queue q at lvl_px
RECURSIVE match_level(_, _, _, _, _, _, _)
match_level(q, idx, remaining, fills, taker_id, taker_side, lvl_px) ==
  IF remaining > 0 /\ q # <<>>
  THEN LET maker == Head(q)
           traded == traded_qty(remaining, maker.qty)
           fills2 == Append(fills, Fill(taker_id, maker.id, taker_side, lvl_px, traded))
           mqty == maker.qty - traded
           rem2 == remaining - traded
       IN  IF mqty = 0
           THEN LET idx1 == MapErase(idx, maker.id)
                    q1 == Tail(q)
                IN  match_level(q1, reindex_after_pop_front(q1, idx1), rem2, fills2,
                                taker_id, taker_side, lvl_px)
           ELSE match_level([q EXCEPT ![1].qty = mqty], idx, rem2, fills2,
                            taker_id, taker_side, lvl_px)
  ELSE [q |-> q, index |-> idx, remaining |-> remaining, out |-> fills]

limit_gate_buy_never(limit_px, ask_px) == FALSE

limit_gate_buy_always(limit_px, ask_px) == limit_px # nullopt

\* if (limit_px && *limit_px < ask_px) break;
limit_gate_buy(limit_px, ask_px) == limit_px # nullopt /\ limit_px[1] < ask_px

limit_gate_sell_always(limit_px, bid_px) == limit_px # nullopt

\* if (limit_px && *limit_px > bid_px) break;
limit_gate_sell(limit_px, bid_px) == limit_px # nullopt /\ limit_px[1] > bid_px

asks_best_level_worst(a) == SetMax(DOMAIN a)

asks_best_level(a) == asks_begin(a)

bids_best_level(b) == bids_begin(b)

RECURSIVE match_buy(_, _, _, _, _)
match_buy(B, taker_id, remaining, fills, limit_px) ==
  IF remaining > 0 /\ DOMAIN B.asks # {}
  THEN LET ask_px == asks_best_level(B.asks)
       IN  IF limit_gate_buy(limit_px, ask_px)
           THEN [book |-> B, remaining |-> remaining, out |-> fills]
           ELSE LET r == match_level(B.asks[ask_px], B.index, remaining, fills,
                                     taker_id, "Buy", ask_px)
                IN  match_buy([B EXCEPT !.asks = erase_if_empty(B.asks, ask_px, r.q),
                                        !.index = r.index],
                              taker_id, r.remaining, r.out, limit_px)
  ELSE [book |-> B, remaining |-> remaining, out |-> fills]

RECURSIVE match_sell(_, _, _, _, _)
match_sell(B, taker_id, remaining, fills, limit_px) ==
  IF remaining > 0 /\ DOMAIN B.bids # {}
  THEN LET bid_px == bids_best_level(B.bids)
       IN  IF limit_gate_sell(limit_px, bid_px)
           THEN [book |-> B, remaining |-> remaining, out |-> fills]
           ELSE LET r == match_level(B.bids[bid_px], B.index, remaining, fills,
                                     taker_id, "Sell", bid_px)
                IN  match_sell([B EXCEPT !.bids = erase_if_empty(B.bids, bid_px, r.q),
                                         !.index = r.index],
                               taker_id, r.remaining, r.out, limit_px)
  ELSE [book |-> B, remaining |-> remaining, out |-> fills]

\* The result of a call: the book and next_id it leaves, the fills it appended
\* to the caller's (empty) vector, whether it threw, and the id it returned
\* (0 when it threw: nothing is returned).
Result(B, nid, fills, threw, id) ==
  [book |-> B, next_id |-> nid, out |-> fills, threw |-> threw, id |-> id]

submit_market_no_check(B, nid, s, q) ==
  LET r == IF s = "Buy" THEN match_buy(B, nid, q, <<>>, nullopt)
                        ELSE match_sell(B, nid, q, <<>>, nullopt)
  IN  Result(r.book, nid + 1, r.out, FALSE, nid)

submit_market(B, nid, s, q) ==
  IF q <= 0 THEN Result(B, nid, <<>>, TRUE, 0)
  ELSE LET id == nid
           r == IF s = "Buy" THEN match_buy(B, id, q, <<>>, nullopt)
                             ELSE match_sell(B, id, q, <<>>, nullopt)
       IN  Result(r.book, nid + 1, r.out, FALSE, id)

submit_limit(B, nid, s, px, q) ==
  IF q <= 0 THEN Result(B, nid, <<>>, TRUE, 0)
  ELSE IF px <= 0 THEN Result(B, nid, <<>>, TRUE, 0)
  ELSE LET id == nid
           r == IF s = "Buy" THEN match_buy(B, id, q, <<>>, Some(px))
                             ELSE match_sell(B, id, q, <<>>, Some(px))
       IN  IF r.remaining > 0
           THEN LET o == [id |-> id, side |-> s, type |-> "Limit",
                          limit_price |-> px, qty |-> r.remaining]
                IN  IF add_limit_throws(r.book, o)
                    THEN Result(r.book, nid + 1, r.out, TRUE, 0)
                    ELSE Result(add_limit(r.book, o), nid + 1, r.out, FALSE, id)
           ELSE Result(r.book, nid + 1, r.out, FALSE, id)

---------------------------------------------------------------------------
(* The state machine.  The program is single-threaded: a caller (main, or  *)
(* Simulator::execute) makes one public call at a time, handing it a fresh *)
(* fills vector, and looks at what the call left before making the next.   *)
(*   last    the call that has just returned or thrown, with its arguments *)
(*           (op = "idle" between calls); last.id is the id returned by a  *)
(*           submit_* call, 0 when it threw                                *)
(*   out     the fills that call appended to the caller's vector           *)
(*   pre     the book and next_id as they were when that call was made     *)
(*   n_ret   how many submit_* calls have returned an id so far, a history *)
(*           kept only in the behaviours of SpecReturned (track = TRUE)    *)

cur == Book(bids, asks, index)


NoOrder == [id |-> 0, side |-> "Buy", type |-> "Limit", limit_price |-> 0, qty |-> 0]

Idle == [op |-> "idle", threw |-> FALSE, id |-> 0, arg |-> NoOrder]

NoPre == [bids |-> <<>>, asks |-> <<>>, index |-> <<>>, next_id |-> 0]

Called(op, threw, id, arg) == [op |-> op, threw |-> threw, id |-> id, arg |-> arg]

Snapshot == [bids |-> bids, asks |-> asks, index |-> index, next_id |-> next_id]

\* no Simulator has been constructed
NoSims == <<>>

\* main's command line.  argv[0] is left out: main.argv[k] is argv[k] of the
\* code and main.i its loop variable.  A token is its text and the value
\* std::stoull gives for it (NotANumber: stoull throws std::invalid_argument,
\* which main does not catch).
NotANumber == 0 - 1

Flag(text) == [text |-> text, num |-> NotANumber]

Number(n) == [text |-> "number", num |-> n]

ArgTokens == {Flag("--run-sim"), Flag("--events"), Flag("--seed")} \cup {Number(n) : n \in 1..MaxArgNumber}

RECURSIVE SeqsUpTo(_, _)
SeqsUpTo(S, n) ==
  IF n = 0 THEN {<<>>}
  ELSE LET shorter == SeqsUpTo(S, n - 1)
       IN  shorter \cup {Append(s, x) : s \in {q \in shorter : Len(q) = n - 1}, x \in S}

Argvs == SeqsUpTo(ArgTokens, MaxArgs)

\* SimConfig sc; (the members main's CLI is about)
SimConfigDefault == [seed |-> 0, max_events |-> 0]

\* main's locals at the top of the for loop
MainStart(argv) ==
  [argv |-> argv, i |-> 1, run_sim |-> FALSE, max_events |-> 200000, seed |-> 42,
   pc |-> "args", sc |-> SimConfigDefault]

\* main past its command line with no --run-sim: the book and engine demo
MainDemo == [MainStart(<<>>) EXCEPT !.pc = "demo"]

argc(m) == Len(m.argv) + 1

\* one iteration of for (int i = 1; i < argc; ++i), with its ++i
parse_arg(m) ==
  LET a == m.argv[m.i]
  IN  IF a.text = "--run-sim" THEN [m EXCEPT !.run_sim = TRUE, !.i = m.i + 1]
      ELSE IF a.text = "--events" /\ m.i + 1 < argc(m)
      THEN IF m.argv[m.i + 1].num = NotANumber THEN [m EXCEPT !.pc = "abort"]
           ELSE [m EXCEPT !.max_events = m.argv[m.i + 1].num, !.i = m.i + 2]
      ELSE IF a.text = "--seed" /\ m.i + 1 < argc(m)
      THEN IF m.argv[m.i + 1].num = NotANumber THEN [m EXCEPT !.pc = "abort"]
           ELSE [m EXCEPT !.seed = m.argv[m.i + 1].num, !.i = m.i + 2]
      ELSE [m EXCEPT !.i = m.i + 1]

\* sc.seed = 42; sc.max_events = 200000;
sim_config(m) == [seed |-> 42, max_events |-> 200000]

InitBook ==
  /\ bids = <<>>
  /\ asks = <<>>
  /\ index = <<>>
  /\ next_id = 1
  /\ out = <<>>
  /\ last = Idle
  /\ pre = NoPre
  /\ n_ret = 0
  /\ main = MainDemo
  /\ sims = NoSims

Init == InitBook /\ track = FALSE

InitReturned == InitBook /\ track = TRUE

SetBook(B) ==
  /\ bids' = B.bids
  /\ asks' = B.asks
  /\ index' = B.index

AddLimit(o) ==
  /\ last.op = "idle"
  /\ IF add_limit_throws(cur, o)
     THEN UNCHANGED <<bids, asks, index>>
     ELSE SetBook(add_limit(cur, o))
  /\ last' = Called("add_limit", add_limit_throws(cur, o), 0, o)
  /\ out' = <<>>
  /\ pre' = Snapshot
  /\ UNCHANGED <<next_id, n_ret, track>>
  /\ UNCHANGED outside

Cancel(id) ==
  /\ last.op = "idle"
  /\ SetBook(cancel(cur, id))
  /\ last' = Called("cancel", FALSE, 0, [NoOrder EXCEPT !.id = id])
  /\ out' = <<>>
  /\ pre' = Snapshot
  /\ UNCHANGED <<next_id, n_ret, track>>
  /\ UNCHANGED outside

Apply(op, arg, r) ==
  /\ SetBook(r.book)
  /\ next_id' = r.next_id
  /\ out' = r.out
  /\ last' = Called(op, r.threw, r.id, arg)
  /\ pre' = Snapshot
  /\ n_ret' = IF track /\ ~r.threw THEN n_ret + 1 ELSE n_ret
  /\ UNCHANGED track
  /\ UNCHANGED outside

SubmitMarket(s, q) ==
  /\ last.op = "idle"
  /\ next_id <= MaxId
  /\ Apply("submit_market",
           [NoOrder EXCEPT !.side = s, !.type = "Market", !.qty = q],
           submit_market(cur, next_id, s, q))

SubmitLimit(s, px, q) ==
  /\ last.op = "idle"
  /\ next_id <= MaxId
  /\ Apply("submit_limit",
           [NoOrder EXCEPT !.side = s, !.limit_price = px, !.qty = q],
           submit_limit(cur, next_id, s, px, q))

\* the caller is done with the call's result and fills vector
Return ==
  /\ last.op # "idle"
  /\ last' = Idle
  /\ out' = <<>>
  /\ pre' = NoPre
  /\ UNCHANGED <<bids, asks, index, next_id, n_ret, track>>
  /\ UNCHANGED outside

\* The orders a caller hands to add_limit: every well-formed limit order, and
\* for each id and side the orders with one field the code rejects.
Orders ==
  [id : Ids, side : Sides, type : {"Limit"}, limit_price : 1..MaxPrice, qty : 1..MaxQty]
    \cup [id : Ids, side : Sides, type : OrdTypes \ {"Limit"}, limit_price : {1}, qty : {1}]
    \cup [id : Ids, side : Sides, type : {"Limit"}, limit_price : {0}, qty : {1}]
    \cup [id : Ids, side : Sides, type : {"Limit"}, limit_price : {1}, qty : {0}]

\* The ids a caller hands to cancel: those add_limit and the engine may have
\* placed, and one that was never in the book (main: ob.cancel(999)).
CancelIds == Ids \cup {MaxId + 1}

Next ==
  \/ \E o \in Orders : AddLimit(o)
  \/ \E id \in CancelIds : Cancel(id)
  \/ \E s \in Sides, q \in Qtys : SubmitMarket(s, q)
  \/ \E s \in Sides, px \in Prices, q \in Qtys : SubmitLimit(s, px, q)
  \/ Return

Spec == Init /\ [][Next]_vars

\* the same program, with the count of returned ids kept
SpecReturned == InitReturned /\ [][Next]_vars

\* A book that only its engine fills: every order enters through submit_limit,
\* and the caller cancels ids the engine has returned (or one it has not).
EngineLimit(s, px, q) ==
  /\ last.op = "idle"
  /\ next_id <= MaxSubmits
  /\ Apply("submit_limit",
           [NoOrder EXCEPT !.side = s, !.limit_price = px, !.qty = q],
           submit_limit(cur, next_id, s, px, q))

EngineMarket(s, q) ==
  /\ last.op = "idle"
  /\ next_id <= MaxSubmits
  /\ Apply("submit_market",
           [NoOrder EXCEPT !.side = s, !.type = "Market", !.qty = q],
           submit_market(cur, next_id, s, q))

NextEngine ==
  \/ \E s \in Sides, px \in Prices, q \in Qtys : EngineLimit(s, px, q)
  \/ \E s \in Sides, q \in Qtys : EngineMarket(s, q)
  \/ \E id \in 1..(MaxSubmits + 1) : Cancel(id)
  \/ Return

SpecEngine == Init /\ [][NextEngine]_vars

\* main from its start: the command line, up to the point where the simulator
\* is constructed or skipped
InitCli ==
  /\ bids = <<>>
  /\ asks = <<>>
  /\ index = <<>>
  /\ next_id = 1
  /\ out = <<>>
  /\ last = Idle
  /\ pre = NoPre
  /\ n_ret = 0
  /\ track = FALSE
  /\ \E argv \in Argvs : main = MainStart(argv)
  /\ sims = NoSims

ParseArg ==
  /\ main.pc = "args"
  /\ main.i < argc(main)
  /\ main' = parse_arg(main)
  /\ UNCHANGED <<bookvars, sims>>

\* if (run_sim) { SimConfig sc; ...; Simulator sim(sc); sim.run(); }
StartSim ==
  /\ main.pc = "args"
  /\ main.i >= argc(main)
  /\ main.run_sim
  /\ main' = [main EXCEPT !.pc = "sim", !.sc = sim_config(main)]
  /\ UNCHANGED <<bookvars, sims>>

SkipSim ==
  /\ main.pc = "args"
  /\ main.i >= argc(main)
  /\ ~main.run_sim
  /\ main' = [main EXCEPT !.pc = "demo"]
  /\ UNCHANGED <<bookvars, sims>>

NextCli == ParseArg \/ StartSim \/ SkipSim

SpecCli == InitCli /\ [][NextCli]_vars

\* Scenario S1 as the demo seeds it: two asks placed with add_limit, then an
\* engine constructed on that book (next_id = 1).
S1_Sell1 == [id |-> 1, side |-> "Sell", type |-> "Limit", limit_price |-> 101, qty |-> 5]

S1_Sell2 == [id |-> 2, side |-> "Sell", type |-> "Limit", limit_price |-> 102, qty |-> 3]

S1_Book == add_limit(add_limit(Book(<<>>, <<>>, <<>>), S1_Sell1), S1_Sell2)

InitS1 ==
  /\ bids = S1_Book.bids
  /\ asks = S1_Book.asks
  /\ index = S1_Book.index
  /\ next_id = 1
  /\ out = <<>>
  /\ last = Idle
  /\ pre = NoPre
  /\ n_ret = 0
  /\ track = FALSE
  /\ main = MainDemo
  /\ sims = NoSims

\* me.submit_limit(Side::Buy, 102, 8, 1.0, fills1)
SubmitS1 == SubmitLimit("Buy", 102, 8)

NextS1 == Next \/ SubmitS1

SpecS1 == InitS1 /\ [][NextS1]_vars

---------------------------------------------------------------------------
(* What the properties below read off a state.                             *)

preB == Book(pre.bids, pre.asks, pre.index)

IsSubmit == last.op \in {"submit_market", "submit_limit"}

\* the call passed the qty / price checks of submit_* and was assigned an id
Accepted ==
  /\ IsSubmit
  /\ last.arg.qty > 0
  /\ last.op = "submit_limit" => last.arg.limit_price > 0

OppSide(B, s) == IF s = "Buy" THEN B.asks ELSE B.bids

OwnSide(B, s) == IF s = "Buy" THEN B.bids ELSE B.asks

OppName(s) == IF s = "Buy" THEN "Sell" ELSE "Buy"

RECURSIVE SumFills(_, _)
SumFills(fills, n) == IF n = 0 THEN 0 ELSE fills[n].qty + SumFills(fills, n - 1)

RECURSIVE SumQueue(_, _)
SumQueue(q, n) == IF n = 0 THEN 0 ELSE q[n].qty + SumQueue(q, n - 1)

RECURSIVE SumLevels(_, _)
SumLevels(m, S) ==
  IF S = {} THEN 0
  ELSE LET px == CHOOSE x \in S : TRUE
       IN  SumQueue(m[px], Len(m[px])) + SumLevels(m, S \ {px})

TotalQty(m) == SumLevels(m, DOMAIN m)

\* the levels of the opposite side a taker may trade with
Crossable(m, s, op, limit) ==
  IF op = "submit_market" THEN DOMAIN m
  ELSE IF s = "Buy" THEN {px \in DOMAIN m : px <= limit}
  ELSE {px \in DOMAIN m : px >= limit}

\* quantity of the fills before fill i of this call that hit maker id
RECURSIVE FilledBefore(_, _)
FilledBefore(id, i) ==
  IF i <= 1 THEN 0
  ELSE (IF out[i - 1].maker_id = id THEN out[i - 1].qty ELSE 0) + FilledBefore(id, i - 1)

BetterPrice(s, a, b) == IF s = "Buy" THEN a < b ELSE a > b

Uncrossed(B) ==
  (DOMAIN B.bids # {} /\ DOMAIN B.asks # {}) => best_bid(B) < best_ask(B)

---------------------------------------------------------------------------
(* Simulator.  A run is a record with the members of class Simulator that  *)
(* next_event and execute read: cfg_, ob_, me_ (its next_id), rng_,        *)
(* regime_, live_ids_ / pos_, and the counters run() prints in its summary *)
(* line, with the fill-by-distance counters and mid_samples_.  The offset *)
(* histogram, sum_mid_, the drawdown and the slippage accumulators are     *)
(* written but never read by next_event or execute and are left out;       *)
(* t_curr_ is never advanced by the code.                                  *)
(* fills is the local vector of execute, failed says that an exception    *)
(* left run().                                                             *)
(* rng_ is the seed it was constructed with and the number of events whose *)
(* draws were taken from it.  The draws of one event are a record d:       *)
(*   d.stay  stay_low / stay_high of maybe_switch_regime                   *)
(*   d.u     U(rng_) of next_event, in percent                             *)
(*   d.qty   G(rng_) + 1 of draw_geometric_mean                            *)
(*   d.k     G(rng_) + 1 of draw_two_sided_offset, d.up its B(rng_)        *)
(*   d.keep  keep_cross(rng_) of decide_limit_price                        *)
(*   d.pick  U(rng_) of sample_live, d.coin the B(rng_) of the fallback    *)
(* A draw the event does not make has the value in NoDraws.                *)

Regimes == {"Low", "High"}

EventTypes == {"LimitBuy", "LimitSell", "MktBuy", "MktSell", "Cancel"}

\* the SimConfig of main, with max_events capped and probabilities in percent
SimCfg ==
  [seed |-> 42, max_events |-> MaxEvents,
   low |-> [p_limit_buy |-> 35, p_limit_sell |-> 35, p_mkt_buy |-> 10, p_mkt_sell |-> 10],
   high |-> [p_limit_buy |-> 28, p_limit_sell |-> 28, p_mkt_buy |-> 18, p_mkt_sell |-> 18],
   initial_mid_ticks |-> 10000, min_price_ticks |-> 1, max_offset_ticks |-> 50]

\* values of u, one in each event class of either regime and one (30) that is
\* a limit buy in the low regime and a limit sell in the high regime
UDraws == {20, 30, 50, 72, 85, 95}

NoDraws == [stay |-> TRUE, u |-> 0, qty |-> 0, k |-> 0, up |-> TRUE, keep |-> TRUE,
            pick |-> 0, coin |-> TRUE]

\* what the distributions can give when live_ids_ has n elements
Draws(n) ==
  [stay : BOOLEAN, u : UDraws, qty : 1..MaxQty, k : 1..MaxOffset, up : BOOLEAN,
   keep : BOOLEAN, pick : 0..(IF n = 0 THEN 0 ELSE n - 1), coin : BOOLEAN]

initial_regimes_any == Regimes

\* Regime regime_{Regime::Low}: the values the member can have after construction
initial_regimes == {"Low"}

\* the indices of lim_total_ / lim_filled_
Buckets == 0..4

\* execute's local bucket in an event that is not a limit order
NoBucket == 0 - 1

bucket_of(k) ==
  IF k = 0 THEN 0
  ELSE IF k <= 2 THEN 1
  ELSE IF k <= 5 THEN 2
  ELSE IF k <= 10 THEN 3
  ELSE 4

NewSimulator(cfg, regime) ==
  [cfg |-> cfg, ob |-> Book(<<>>, <<>>, <<>>), next_id |-> 1,
   rng |-> [seed |-> cfg.seed, n |-> 0], regime |-> regime,
   live_ids |-> <<>>, pos |-> <<>>,
   n_events |-> 0, n_limits |-> 0, n_markets |-> 0, n_cancels |-> 0,
   n_trades |-> 0, vol_traded |-> 0, sum_spread |-> 0, mid_samples |-> 0,
   lim_total |-> [b \in Buckets |-> 0], lim_filled |-> [b \in Buckets |-> 0],
   lim_bucket_by_id |-> <<>>,
   fills |-> <<>>, id |-> 0, bucket |-> NoBucket, failed |-> FALSE, trace |-> <<>>]

maybe_switch_regime(regime, stay) ==
  IF regime = "Low" THEN (IF stay THEN "Low" ELSE "High")
  ELSE (IF stay THEN "High" ELSE "Low")

mix_for(cfg, r) == IF r = "Low" THEN cfg.low ELSE cfg.high

current_mid(ob, cfg) == IF mid(ob) > 0 THEN mid(ob) ELSE cfg.initial_mid_ticks

Abs(x) == IF x < 0 THEN 0 - x ELSE x

Max2(a, b) == IF a < b THEN b ELSE a

draw_two_sided_offset(cfg, d) ==
  LET k == IF cfg.max_offset_ticks > 0 THEN Min2(d.k, cfg.max_offset_ticks) ELSE d.k
  IN  IF d.up THEN k ELSE 0 - k

decide_limit_price_no_clamp(ob, cfg, s, d) ==
  LET m == current_mid(ob, cfg)
      off == draw_two_sided_offset(cfg, d)
      px0 == m + off
      crosses == IF s = "Buy" THEN DOMAIN ob.asks # {} /\ px0 >= best_ask(ob)
                 ELSE DOMAIN ob.bids # {} /\ px0 <= best_bid(ob)
      px1 == IF crosses /\ ~d.keep
             THEN (IF s = "Buy" THEN Min2(best_bid(ob), m - Abs(off))
                   ELSE Max2(best_ask(ob), m + Abs(off)))
             ELSE px0
  IN  [px |-> px1, drew_keep |-> crosses]

\* the price, and whether keep_cross was drawn
decide_limit_price(ob, cfg, s, d) ==
  LET m == current_mid(ob, cfg)
      off == draw_two_sided_offset(cfg, d)
      px0 == m + off
      crosses == IF s = "Buy" THEN DOMAIN ob.asks # {} /\ px0 >= best_ask(ob)
                 ELSE DOMAIN ob.bids # {} /\ px0 <= best_bid(ob)
      px1 == IF crosses /\ ~d.keep
             THEN (IF s = "Buy" THEN Min2(best_bid(ob), m - Abs(off))
                   ELSE Max2(best_ask(ob), m + Abs(off)))
             ELSE px0
  IN  [px |-> IF px1 < cfg.min_price_ticks THEN cfg.min_price_ticks ELSE px1,
       drew_keep |-> crosses]

sample_live(live_ids, pick) == IF live_ids = <<>> THEN 0 ELSE live_ids[pick + 1]

SimEvent(type, side, qty, px, cancel_id) ==
  [type |-> type, side |-> side, qty |-> qty, px |-> px, cancel_id |-> cancel_id]

\* a limit event of next_event, with the draws it made
limit_event(ob, cfg, s, d, base) ==
  LET p == decide_limit_price(ob, cfg, s, d)
  IN  [ev |-> SimEvent(IF s = "Buy" THEN "LimitBuy" ELSE "LimitSell", s, d.qty,
                       Some(p.px), nullopt),
       used |-> [base EXCEPT !.qty = d.qty, !.k = d.k, !.up = d.up,
                             !.keep = IF p.drew_keep THEN d.keep ELSE NoDraws.keep]]

cancel_event_no_fallback(sim, d, base) ==
  IF sample_live(sim.live_ids, d.pick) # 0
  THEN [ev |-> SimEvent("Cancel", "Buy", 0, nullopt, Some(sample_live(sim.live_ids, d.pick))),
        used |-> [base EXCEPT !.pick = d.pick]]
  ELSE [ev |-> SimEvent("Cancel", "Buy", 0, nullopt, nullopt), used |-> base]

\* the else branch of next_event: a Cancel of a sampled live id, or, with
\* nothing to cancel, a limit order on the side a coin picks
cancel_event(sim, d, base) ==
  IF sample_live(sim.live_ids, d.pick) # 0
  THEN [ev |-> SimEvent("Cancel", "Buy", 0, nullopt, Some(sample_live(sim.live_ids, d.pick))),
        used |-> [base EXCEPT !.pick = d.pick]]
  ELSE limit_event(sim.ob, sim.cfg, IF d.coin THEN "Buy" ELSE "Sell", d,
                   [base EXCEPT !.coin = d.coin])

\* the event next_event returns, the regime it leaves and the draws it made
next_event(sim, d) ==
  LET regime == maybe_switch_regime(sim.regime, d.stay)
      mix == mix_for(sim.cfg, regime)
      c1 == mix.p_limit_buy
      c2 == c1 + mix.p_limit_sell
      c3 == c2 + mix.p_mkt_buy
      c4 == c3 + mix.p_mkt_sell
      base == [NoDraws EXCEPT !.stay = d.stay, !.u = d.u]
      r == IF d.u < c1 THEN limit_event(sim.ob, sim.cfg, "Buy", d, base)
           ELSE IF d.u < c2 THEN limit_event(sim.ob, sim.cfg, "Sell", d, base)
           ELSE IF d.u < c3
           THEN [ev |-> SimEvent("MktBuy", "Buy", d.qty, nullopt, nullopt),
                 used |-> [base EXCEPT !.qty = d.qty]]
           ELSE IF d.u < c4
           THEN [ev |-> SimEvent("MktSell", "Sell", d.qty, nullopt, nullopt),
                 used |-> [base EXCEPT !.qty = d.qty]]
           ELSE cancel_event(sim, d, base)
  IN  [ev |-> r.ev, used |-> r.used, regime |-> regime]

\* live_ids_ and pos_ as a record
Live(live_ids, pos) == [live_ids |-> live_ids, pos |-> pos]

live_add_always(ob, L, id) ==
  IF id \in DOMAIN L.pos THEN L
  ELSE Live(Append(L.live_ids, id), MapPut(L.pos, id, Len(L.live_ids)))

live_add_if_resting(ob, L, id) ==
  IF id \notin DOMAIN ob.index THEN L
  ELSE IF id \in DOMAIN L.pos THEN L
  ELSE Live(Append(L.live_ids, id), MapPut(L.pos, id, Len(L.live_ids)))

live_remove(L, id) ==
  IF id \notin DOMAIN L.pos THEN L
  ELSE LET idx == L.pos[id]
           lastid == L.live_ids[Len(L.live_ids)]
           moved == [L.live_ids EXCEPT ![idx + 1] = lastid]
           pos1 == MapPut(L.pos, lastid, idx)
       IN  Live(SubSeq(moved, 1, Len(moved) - 1), MapErase(pos1, id))

live_remove_if_gone(ob, L, id) == IF id \in DOMAIN ob.index THEN L ELSE live_remove(L, id)

\* what execute does with the maker of one fill: live_remove(f.maker_id)
drop_maker(ob, L, id) == live_remove(L, id)

\* for (const auto& f : fills) live_remove(f.maker_id);
RECURSIVE drop_makers(_, _, _, _)
drop_makers(ob, L, fills, i) ==
  IF i > Len(fills) THEN L
  ELSE drop_makers(ob, drop_maker(ob, L, fills[i].maker_id), fills, i + 1)

\* the switch of execute: the call made on the engine or the book
engine_call(sim, e) ==
  IF e.type \in {"LimitBuy", "LimitSell"}
  THEN submit_limit(sim.ob, sim.next_id, e.side, e.px[1], e.qty)
  ELSE IF e.type \in {"MktBuy", "MktSell"}
  THEN submit_market(sim.ob, sim.next_id, e.side, e.qty)
  ELSE IF e.cancel_id # nullopt
  THEN Result(cancel(sim.ob, e.cancel_id[1]), sim.next_id, <<>>, FALSE, 0)
  ELSE Result(sim.ob, sim.next_id, <<>>, FALSE, 0)

\* the registry after the switch: live_add_if_resting(id) / live_remove(*e.cancel_id)
registry_switch(sim, e, r) ==
  IF e.type \in {"LimitBuy", "LimitSell"}
  THEN live_add_if_resting(r.book, Live(sim.live_ids, sim.pos), r.id)
  ELSE IF e.type = "Cancel" /\ e.cancel_id # nullopt
  THEN live_remove(Live(sim.live_ids, sim.pos), e.cancel_id[1])
  ELSE Live(sim.live_ids, sim.pos)

\* the registry after the two loops over the fills (lines 279 and 311-315)
registry_after(sim, e, r) ==
  drop_makers(r.book, drop_makers(r.book, registry_switch(sim, e, r), r.out, 1), r.out, 1)

\* the distance k of a limit event's price from the mid of the book it is
\* sent to (0 unless both sides are non-empty), capped at max_offset_ticks
limit_offset(ob, cfg, e) ==
  IF DOMAIN ob.bids # {} /\ DOMAIN ob.asks # {} /\ e.px # nullopt
  THEN LET m == (best_bid(ob) + best_ask(ob)) \div 2
           k == Abs(IF e.type = "LimitBuy" THEN e.px[1] - m ELSE m - e.px[1])
       IN  IF cfg.max_offset_ticks > 0 /\ k > cfg.max_offset_ticks
           THEN cfg.max_offset_ticks ELSE k
  ELSE 0

\* int bucket = bucket_of(k), a local of the two limit cases
event_bucket(sim, e) ==
  IF e.type \in {"LimitBuy", "LimitSell"} THEN bucket_of(limit_offset(sim.ob, sim.cfg, e))
  ELSE NoBucket

\* lim_total_, lim_filled_ and lim_bucket_by_id_ as a record
Tally(total, filled, by_id) == [total |-> total, filled |-> filled, by_id |-> by_id]

\* ++lim_total_[bucket]; ... if (ob_.index.count(id)) lim_bucket_by_id_[id] = bucket;
tally_limit(T, bucket, resting, id) ==
  IF bucket = NoBucket THEN T
  ELSE Tally([T.total EXCEPT ![bucket] = @ + 1], T.filled,
             IF resting THEN MapPut(T.by_id, id, bucket) ELSE T.by_id)

tally_fill_every_time(T, maker_id) ==
  IF maker_id \in DOMAIN T.by_id
  THEN Tally(T.total, [T.filled EXCEPT ![T.by_id[maker_id]] = @ + 1], T.by_id)
  ELSE T

\* the body of the loop over the fills: ++lim_filled_[it->second]; erase(it)
tally_fill(T, maker_id) ==
  IF maker_id \in DOMAIN T.by_id
  THEN Tally(T.total, [T.filled EXCEPT ![T.by_id[maker_id]] = @ + 1],
             MapErase(T.by_id, maker_id))
  ELSE T

RECURSIVE tally_fills(_, _, _)
tally_fills(T, fills, i) ==
  IF i > Len(fills) THEN T
  ELSE tally_fills(tally_fill(T, fills[i].maker_id), fills, i + 1)

\* the three members after the switch and the loop over the fills
tally_after(sim, r, bucket) ==
  tally_fills(tally_limit(Tally(sim.lim_total, sim.lim_filled, sim.lim_bucket_by_id),
                          bucket, ~r.threw /\ r.id \in DOMAIN r.book.index, r.id),
              IF r.threw THEN <<>> ELSE r.out, 1)

count_trades_per_event(n, fills) == IF fills = <<>> THEN n ELSE n + 1

\* for (const auto& f : fills) { ++n_trades_; ... }
count_trades(n, fills) == n + Len(fills)

\* the members of the run after execute, r being what the engine call left,
\* L the registry and T the bucket counters after the fills were processed
executed(sim, e, r, L, T, bucket) ==
  IF r.threw
  THEN [sim EXCEPT !.ob = r.book, !.next_id = r.next_id, !.fills = r.out, !.failed = TRUE,
                   !.lim_total = T.total, !.id = 0, !.bucket = bucket]
  ELSE [sim EXCEPT
          !.ob = r.book,
          !.next_id = r.next_id,
          !.fills = r.out,
          !.id = r.id,
          !.bucket = bucket,
          !.lim_total = T.total,
          !.lim_filled = T.filled,
          !.lim_bucket_by_id = T.by_id,
          !.live_ids = L.live_ids,
          !.pos = L.pos,
          !.n_events = @ + 1,
          !.n_limits = IF e.type \in {"LimitBuy", "LimitSell"} THEN @ + 1 ELSE @,
          !.n_markets = IF e.type \in {"MktBuy", "MktSell"} THEN @ + 1 ELSE @,
          !.n_cancels = IF e.type = "Cancel" THEN @ + 1 ELSE @,
          !.sum_spread = IF DOMAIN r.book.bids # {} /\ DOMAIN r.book.asks # {}
                         THEN @ + (best_ask(r.book) - best_bid(r.book)) ELSE @,
          !.mid_samples = IF DOMAIN r.book.bids # {} /\ DOMAIN r.book.asks # {}
                          THEN @ + 1 ELSE @,
          !.n_trades = count_trades(@, r.out),
          !.vol_traded = @ + SumFills(r.out, Len(r.out))]

execute_bucket(sim, e, r, bucket) ==
  executed(sim, e, r, registry_after(sim, e, r), tally_after(sim, r, bucket), bucket)

execute_call(sim, e, r) == execute_bucket(sim, e, r, event_bucket(sim, e))

\* execute(e)
execute(sim, e) == execute_call(sim, e, engine_call(sim, e))

\* the trace keeps, per event, its draws, the event, its fills, the registry
\* before it and the book and regime after it
traced(sim, ne, after) ==
  [after EXCEPT !.trace = Append(@,
     [draws |-> ne.used, ev |-> ne.ev, fills |-> after.fills,
      id |-> after.id, bucket |-> after.bucket,
      live_pre |-> sim.live_ids, ob |-> after.ob, regime |-> after.regime])]

event_step(sim, ne) ==
  traced(sim, ne, execute([sim EXCEPT !.regime = ne.regime, !.rng.n = @ + 1], ne.ev))

\* one iteration of the loop of run(): SimEvent e = next_event(); execute(e);
run_step(sim, d) == event_step(sim, next_event(sim, d))

Running_one_more(sim) == ~sim.failed /\ sim.rng.n <= sim.cfg.max_events

\* the condition of the loop of run(): i < cfg_.max_events (an exception ends it)
Running(sim) == ~sim.failed /\ sim.rng.n < sim.cfg.max_events

\* main after --run-sim
MainSim == [MainStart(<<Flag("--run-sim")>>) EXCEPT !.i = 2, !.run_sim = TRUE, !.pc = "sim",
                                                   !.sc = [seed |-> SimCfg.seed, max_events |-> SimCfg.max_events]]

\* Two runs with the same SimConfig, one after the other (as main's sweeps
\* construct and run one Simulator after another).
InitSim ==
  /\ bids = <<>>
  /\ asks = <<>>
  /\ index = <<>>
  /\ next_id = 1
  /\ out = <<>>
  /\ last = Idle
  /\ pre = NoPre
  /\ n_ret = 0
  /\ track = FALSE
  /\ main = MainSim
  /\ \E g1 \in initial_regimes, g2 \in initial_regimes :
       sims = <<NewSimulator(SimCfg, g1), NewSimulator(SimCfg, g2)>>

DrawsOf(sim) == {next_event(sim, d).used : d \in Draws(Len(sim.live_ids))}

\* the first run draws from its generator
FirstDraws == IF Running(sims[1]) THEN DrawsOf(sims[1]) ELSE {}

\* the second run starts when the first has ended; a generator with the same
\* seed gives at each position what it gave the first run
SecondDraws ==
  IF Running(sims[1]) \/ ~Running(sims[2]) THEN {}
  ELSE IF sims[2].rng.seed = sims[1].rng.seed /\ sims[2].rng.n < Len(sims[1].trace)
  THEN {sims[1].trace[sims[2].rng.n + 1].draws}
  ELSE DrawsOf(sims[2])

FirstStep(d) ==
  /\ Running(sims[1])
  /\ sims' = [sims EXCEPT ![1] = run_step(sims[1], d)]
  /\ UNCHANGED <<bookvars, main>>

SecondStep(d) ==
  /\ ~Running(sims[1])
  /\ Running(sims[2])
  /\ sims' = [sims EXCEPT ![2] = run_step(sims[2], d)]
  /\ UNCHANGED <<bookvars, main>>

NextSim ==
  \/ \E d \in FirstDraws : FirstStep(d)
  \/ \E d \in SecondDraws : SecondStep(d)

SpecSim == InitSim /\ [][NextSim]_vars

\* One longer run, in which the regime stays low (stay_low gives true at
\* every event), so that an order can rest, be joined by others and be
\* filled more than once.
SimCfgLong == [SimCfg EXCEPT !.max_events = MaxLongEvents]

InitLong ==
  /\ bids = <<>>
  /\ asks = <<>>
  /\ index = <<>>
  /\ next_id = 1
  /\ out = <<>>
  /\ last = Idle
  /\ pre = NoPre
  /\ n_ret = 0
  /\ track = FALSE
  /\ main = MainSim
  /\ \E g \in initial_regimes : sims = <<NewSimulator(SimCfgLong, g)>>

LongDraws == IF Running(sims[1]) THEN {d \in DrawsOf(sims[1]) : d.stay} ELSE {}

NextLong == \E d \in LongDraws : FirstStep(d)

SpecLong == InitLong /\ [][NextLong]_vars

---------------------------------------------------------------------------
(* C1: after every public call (add_limit, cancel, submit_market,          *)
(* submit_limit), returning or throwing, self_check() holds: every order   *)
(* at position p of level px on side s has index[id] = (s, px, p) and      *)
(* every index entry designates an order with that id at that place.       *)
C1_SelfCheck == self_check(cur)

\* a fill popped the front of a level and an order behind it was re-indexed
C1_Witness ==
  /\ IsSubmit
  /\ out # <<>>
  /\ \E id \in DOMAIN index \cap DOMAIN pre.index :
       /\ index[id].pos < pre.index[id].pos
       /\ index[id].px = pre.index[id].px

(* C2 as stated: upon completion of any public call, best_bid() <          *)
(* best_ask() whenever both sides are non-empty.                           *)
C2_Original == Uncrossed(cur)

\* the order handed to add_limit reaches the opposite best of book B
AddReaches(B, o) ==
  IF o.side = "Buy" THEN DOMAIN B.asks # {} /\ o.limit_price >= best_ask(B)
  ELSE DOMAIN B.bids # {} /\ o.limit_price <= best_bid(B)

(* C2 amended: cancel, submit_market and submit_limit (returning or        *)
(* throwing) leave a book that was not crossed when the call was made not  *)
(* crossed; add_limit does so exactly when the order it adds does not      *)
(* reach the opposite best.                                                *)
C2_Amended ==
  (last.op # "idle" /\ Uncrossed(preB)) =>
    IF last.op = "add_limit" /\ ~last.threw
    THEN Uncrossed(cur) <=> ~AddReaches(preB, last.arg)
    ELSE Uncrossed(cur)

\* a marketable limit traded, stopped at its gate and posted its residual
C2_Witness ==
  /\ last.op = "submit_limit"
  /\ ~last.threw
  /\ Uncrossed(preB)
  /\ out # <<>>
  /\ last.id \in DOMAIN index
  /\ DOMAIN bids # {}
  /\ DOMAIN asks # {}

(* C3: within one submit_* call the fills come in price-time order: the    *)
(* fill prices never get better along the list, every maker rested on the  *)
(* opposite side, and when a maker is filled every order that rested at a  *)
(* better price, or at the same price nearer the front, has already been   *)
(* consumed in full by earlier fills of the call.                          *)
C3_PriceTimeOrder ==
  IsSubmit =>
    LET s == last.arg.side
        opp == OppSide(preB, s)
    IN  \A i \in 1..Len(out) :
          LET f == out[i]
          IN  /\ f.maker_id \in DOMAIN pre.index
              /\ pre.index[f.maker_id].side = OppName(s)
              /\ pre.index[f.maker_id].px = f.price
              /\ \A j \in 1..(i - 1) : ~BetterPrice(s, f.price, out[j].price)
              /\ \A px \in DOMAIN opp : \A p \in 1..Len(opp[px]) :
                   (\/ BetterPrice(s, px, f.price)
                    \/ (px = f.price /\ p - 1 < pre.index[f.maker_id].pos))
                     => FilledBefore(opp[px][p].id, i) = opp[px][p].qty

\* a taker walked two price levels
C3_Witness ==
  /\ IsSubmit
  /\ Len(out) >= 2
  /\ out[1].price # out[2].price

(* C4: for a submit_* call with taker quantity Q that passed its argument  *)
(* checks, the fill quantities sum to the quantity removed from the        *)
(* opposite side and to min(Q, C), C the resting quantity of the opposite  *)
(* side the taker may trade with (all of it for a market order, the asks   *)
(* <= limit for a limit buy, the bids >= limit for a limit sell).          *)
C4_FillSum ==
  Accepted =>
    LET s == last.arg.side
        before == OppSide(preB, s)
        after == OppSide(cur, s)
        C == SumLevels(before, Crossable(before, s, last.op, last.arg.limit_price))
        f == SumFills(out, Len(out))
    IN  /\ f = TotalQty(before) - TotalQty(after)
        /\ f = Min2(last.arg.qty, C)

\* a limit taker took all it could reach and liquidity beyond its limit remains
C4_Witness ==
  /\ Accepted
  /\ last.op = "submit_limit"
  /\ out # <<>>
  /\ SumFills(out, Len(out)) < last.arg.qty
  /\ DOMAIN OppSide(cur, last.arg.side) # {}

(* C5: every fill is priced at the level its maker rested at, which is the *)
(* maker's own limit price; a limit buy is never filled above its limit    *)
(* nor a limit sell below it; a market order is not gated: it stops short  *)
(* of its quantity only when the opposite side is exhausted.               *)
C5_MakerPriceAndGate ==
  IsSubmit =>
    LET s == last.arg.side
        opp == OppSide(preB, s)
    IN  /\ \A i \in 1..Len(out) :
             LET f == out[i]
             IN  /\ f.maker_id \in DOMAIN pre.index
                 /\ f.price = pre.index[f.maker_id].px
                 /\ f.price \in DOMAIN opp
                 /\ \E p \in 1..Len(opp[f.price]) :
                      /\ opp[f.price][p].id = f.maker_id
                      /\ opp[f.price][p].limit_price = f.price
                 /\ (last.op = "submit_limit" /\ s = "Buy") => f.price <= last.arg.limit_price
                 /\ (last.op = "submit_limit" /\ s = "Sell") => f.price >= last.arg.limit_price
        /\ (last.op = "submit_market" /\ SumFills(out, Len(out)) < last.arg.qty)
             => DOMAIN OppSide(cur, s) = {}

\* a limit buy was filled at a maker's price below its own limit
C5_Witness ==
  /\ last.op = "submit_limit"
  /\ last.arg.side = "Buy"
  /\ out # <<>>
  /\ out[1].price < last.arg.limit_price

SumOut == SumFills(out, Len(out))

(* C6 as stated: after submit_limit(side, px, q) whose fills sum to f, if  *)
(* q - f > 0 the order rests under the returned id on its own side at px,  *)
(* at the back of that level, with qty q - f; if q - f = 0 the returned id *)
(* is not in the book.                                                     *)
C6_Original ==
  (last.op = "submit_limit" /\ Accepted) =>
    LET s == last.arg.side
        px == last.arg.limit_price
        own == OwnSide(cur, s)
        left == last.arg.qty - SumOut
    IN  /\ ~last.threw
        /\ left > 0 =>
             /\ last.id \in DOMAIN index
             /\ index[last.id].side = s
             /\ index[last.id].px = px
             /\ px \in DOMAIN own
             /\ index[last.id].pos = Len(own[px]) - 1
             /\ own[px][Len(own[px])].id = last.id
             /\ own[px][Len(own[px])].qty = left
        /\ left = 0 => last.id \notin DOMAIN index

(* C7 as stated: after submit_market the returned id is not in the book    *)
(* index, the unfilled remainder is discarded and the taker's own side of  *)
(* the book is unchanged.                                                  *)
C7_Original ==
  (last.op = "submit_market" /\ Accepted) =>
    /\ ~last.threw
    /\ last.id \notin DOMAIN index
    /\ OwnSide(cur, last.arg.side) = OwnSide(preB, last.arg.side)

(* C8: in every state every resting order has qty > 0 and limit_price >= 1 *)
(* (a maker whose qty reaches 0 is removed in the same call).              *)
C8_RestingPositive ==
  /\ \A px \in DOMAIN bids : \A p \in 1..Len(bids[px]) :
       bids[px][p].qty > 0 /\ bids[px][p].limit_price >= 1
  /\ \A px \in DOMAIN asks : \A p \in 1..Len(asks[px]) :
       asks[px][p].qty > 0 /\ asks[px][p].limit_price >= 1

\* a maker was filled in part and still rests, at the front, with what is left
C8_Witness ==
  /\ IsSubmit
  /\ \E i \in 1..Len(out) :
       LET f == out[i]
           before == OppSide(preB, last.arg.side)
           after == OppSide(cur, last.arg.side)
       IN  /\ f.price \in DOMAIN after
           /\ Head(after[f.price]).id = f.maker_id
           /\ Head(after[f.price]).qty = Head(before[f.price]).qty - f.qty
           /\ f.qty > 0

(* C9: no price key of bids or asks maps to an empty level queue: when a   *)
(* cancel or a full fill removes the last order of a level, the key is     *)
(* erased in the same call.                                                *)
C9_NoEmptyLevel ==
  /\ \A px \in DOMAIN bids : bids[px] # <<>>
  /\ \A px \in DOMAIN asks : asks[px] # <<>>

\* cancel removed the only order of a level and the level is gone
C9_Witness ==
  /\ last.op = "cancel"
  /\ last.arg.id \in DOMAIN pre.index
  /\ LET e == pre.index[last.arg.id]
     IN  /\ Len(OwnSide(preB, e.side)[e.px]) = 1
         /\ e.px \notin DOMAIN OwnSide(cur, e.side)

(* C10 as stated: the ids returned by successive successful submit_* calls *)
(* start at 1 and increase by exactly 1: the k-th call that returns an id  *)
(* returns k.                                                              *)
C10_Original == (IsSubmit /\ ~last.threw) => last.id = n_ret

---------------------------------------------------------------------------
(* C11 as stated (scenario S1): with Sell id 1 @101 qty 5 and Sell id 2    *)
(* @102 qty 3 added and a newly constructed engine, submit_limit(Buy, 102, *)
(* 8) is assigned taker id 3 and emits (3, 1, Buy, 101, 5) then            *)
(* (3, 2, Buy, 102, 3); both ask levels are gone and nothing is posted.    *)
IsS1Call ==
  /\ last.op = "submit_limit"
  /\ last.arg.side = "Buy" /\ last.arg.limit_price = 102 /\ last.arg.qty = 8
  /\ preB = S1_Book
  /\ pre.next_id = 1

C11_Original ==
  IsS1Call =>
    /\ ~last.threw
    /\ last.id = 3
    /\ out = <<Fill(3, 1, "Buy", 101, 5), Fill(3, 2, "Buy", 102, 3)>>
    /\ asks = <<>>
    /\ bids = <<>>
    /\ index = <<>>

\* what the code does in S1: the same fills, under taker id 1
C11_TakerIdOne ==
  IsS1Call =>
    /\ ~last.threw
    /\ last.id = 1
    /\ out = <<Fill(1, 1, "Buy", 101, 5), Fill(1, 2, "Buy", 102, 3)>>
    /\ asks = <<>>
    /\ bids = <<>>
    /\ index = <<>>

---------------------------------------------------------------------------
(* C12: add_limit fails exactly when the order's type is not Limit, its id *)
(* is already in the index, its qty <= 0 or its limit_price <= 0; on       *)
(* failure bids, asks and index are unchanged; on success the order is at  *)
(* the back of its price level (created if absent), nothing else moved,    *)
(* and index[id] = (side, price, size - 1).                                *)
C12_AddLimit ==
  last.op = "add_limit" =>
    LET o == last.arg
        px == o.limit_price
        ownPre == OwnSide(preB, o.side)
        own == OwnSide(cur, o.side)
    IN  /\ last.threw <=> \/ o.type # "Limit"
                          \/ o.id \in DOMAIN pre.index
                          \/ o.qty <= 0
                          \/ o.limit_price <= 0
        /\ last.threw => cur = preB
        /\ ~last.threw =>
             /\ DOMAIN own = DOMAIN ownPre \cup {px}
             /\ own[px] = (IF px \in DOMAIN ownPre THEN ownPre[px] ELSE <<>>) \o <<o>>
             /\ \A x \in DOMAIN ownPre : x # px => own[x] = ownPre[x]
             /\ OppSide(cur, o.side) = OppSide(preB, o.side)
             /\ DOMAIN index = DOMAIN pre.index \cup {o.id}
             /\ \A i \in DOMAIN pre.index : index[i] = pre.index[i]
             /\ index[o.id] = [side |-> o.side, px |-> px, pos |-> Len(own[px]) - 1]

\* an order was added behind another one at a level that already existed
C12_Witness ==
  /\ last.op = "add_limit"
  /\ ~last.threw
  /\ last.arg.limit_price \in DOMAIN OwnSide(preB, last.arg.side)
  /\ index[last.arg.id].pos = 1

\* add_limit threw on an id already in the index and left the book alone
C12_WitnessDuplicate ==
  /\ last.op = "add_limit"
  /\ last.threw
  /\ last.arg.type = "Limit" /\ last.arg.qty > 0 /\ last.arg.limit_price > 0
  /\ last.arg.id \in DOMAIN pre.index
  /\ cur = preB

---------------------------------------------------------------------------
(* C13: submit_market with qty <= 0, and submit_limit with qty <= 0 or     *)
(* price <= 0, fail at the submission boundary without side effects:       *)
(* next_id is unchanged (no id consumed), the book is unchanged and no     *)
(* fill is appended to the output list.                                    *)
C13_RejectedSubmit ==
  (IsSubmit /\ ~Accepted) =>
    /\ last.threw
    /\ next_id = pre.next_id
    /\ cur = preB
    /\ out = <<>>

\* a sell limit at price 0 with qty > 0 was rejected while bids it would
\* otherwise have hit were resting
C13_Witness ==
  /\ last.op = "submit_limit"
  /\ last.arg.side = "Sell" /\ last.arg.limit_price = 0 /\ last.arg.qty > 0
  /\ DOMAIN pre.bids # {}
  /\ last.threw

\* a market order with qty 0 was rejected
C13_WitnessMarket ==
  /\ last.op = "submit_market"
  /\ last.arg.qty = 0
  /\ last.threw
  /\ DOMAIN pre.asks # {} /\ DOMAIN pre.bids # {}

---------------------------------------------------------------------------
(* C14: cancel(id) for an id that is not in the index is a silent no-op in *)
(* every book state: bids, asks and index are as before and self_check()   *)
(* holds; and since no cancel leaves its id in the index, cancelling the   *)
(* same id a second time is that no-op.                                    *)
C14_CancelUnknown ==
  last.op = "cancel" =>
    /\ ~last.threw
    /\ last.arg.id \notin DOMAIN index
    /\ last.arg.id \notin DOMAIN pre.index => (cur = preB /\ self_check(cur))

\* an id that is not in the index was cancelled on a book with orders on
\* both sides
C14_Witness ==
  /\ last.op = "cancel"
  /\ last.arg.id \notin DOMAIN pre.index
  /\ DOMAIN pre.bids # {} /\ DOMAIN pre.asks # {}

---------------------------------------------------------------------------
(* C15 (round trip): in every book state the program reaches, for every    *)
(* valid limit order o whose id is not in the book, add_limit(o) followed  *)
(* immediately by cancel(o.id) leaves bids, asks and index exactly as they *)
(* were before the add (a level the add created is removed again).         *)
C15_RoundTrip ==
  last.op = "idle" =>
    \A o \in Orders :
      ~add_limit_throws(cur, o) => cancel(add_limit(cur, o), o.id) = cur

\* cancel has just undone an add_limit: the book it was called on is the
\* present book plus one order, which had been added behind a resting order
C15_Witness ==
  /\ last.op = "cancel"
  /\ \E o \in Orders :
       /\ o.id = last.arg.id
       /\ ~add_limit_throws(cur, o)
       /\ preB = add_limit(cur, o)
       /\ o.limit_price \in DOMAIN OwnSide(cur, o.side)

\* the same, where the add had created the level and the cancel removed it
C15_WitnessLevel ==
  /\ last.op = "cancel"
  /\ \E o \in Orders :
       /\ o.id = last.arg.id
       /\ ~add_limit_throws(cur, o)
       /\ preB = add_limit(cur, o)
       /\ o.limit_price \notin DOMAIN OwnSide(cur, o.side)
       /\ DOMAIN index # {}

---------------------------------------------------------------------------
(* C16 as stated: for qty > 0 (and price > 0 for limits) submit_market and *)
(* submit_limit never fail, in any book state reached by add_limit, cancel *)
(* and submit_* calls; unfilled limit quantity is posted under the         *)
(* assigned id.                                                            *)
C16_Original ==
  Accepted =>
    /\ ~last.threw
    /\ (last.op = "submit_limit" /\ last.arg.qty > SumOut) =>
         /\ last.id \in DOMAIN index
         /\ index[last.id].side = last.arg.side
         /\ index[last.id].px = last.arg.limit_price

\* submit_market, for its part, never fails on qty > 0
C16_MarketNeverFails ==
  (last.op = "submit_market" /\ last.arg.qty > 0) => ~last.threw

---------------------------------------------------------------------------
(* C20 as stated: when the program is started with --run-sim, the value    *)
(* given with --events N is the max_events of the simulator that runs and  *)
(* the value given with --seed S is its seed (200000 and 42 when the flags *)
(* are absent).                                                            *)
C20_Original ==
  main.pc = "sim" =>
    /\ main.sc.max_events = main.max_events
    /\ main.sc.seed = main.seed

\* the loop itself reads the flags as the spec says: --events N alone
C20_ParsedEvents ==
  (main.pc = "sim" /\ \E n \in 1..MaxArgNumber :
      main.argv \in {<<Flag("--run-sim"), Flag("--events"), Number(n)>>,
                     <<Flag("--events"), Number(n), Flag("--run-sim")>>}
      /\ main.max_events # n)
    => FALSE

\* without the flags the simulator runs with 200000 events and seed 42
C20_Defaults ==
  (main.pc = "sim" /\ main.argv = <<Flag("--run-sim")>>) =>
    (main.sc.max_events = 200000 /\ main.sc.seed = 42)

---------------------------------------------------------------------------
(* What the simulator properties read off a run: its latest event.         *)

SetOf(s) == {s[i] : i \in 1..Len(s)}

Runs == {r \in DOMAIN sims : sims[r].trace # <<>>}

LastEntry(r) == sims[r].trace[Len(sims[r].trace)]

\* next_event drew the Cancel class: u is past all four thresholds of the mix
CancelDrawn(r) ==
  LET mix == mix_for(sims[r].cfg, LastEntry(r).regime)
  IN  LastEntry(r).draws.u >=
        mix.p_limit_buy + mix.p_limit_sell + mix.p_mkt_buy + mix.p_mkt_sell

RECURSIVE CountTypes(_, _, _)
CountTypes(trace, types, n) ==
  IF n = 0 THEN 0
  ELSE (IF trace[n].ev.type \in types THEN 1 ELSE 0) + CountTypes(trace, types, n - 1)

(* C17 as stated: when execute processes the fills of an event, a maker id *)
(* leaves the live-id registry only if that maker is no longer in the      *)
(* book; a maker that was partially filled and still rests stays in the    *)
(* registry.                                                               *)
C17_Original ==
  \A r \in Runs :
    \A i \in 1..Len(LastEntry(r).fills) :
      LET id == LastEntry(r).fills[i].maker_id
      IN  (id \in SetOf(LastEntry(r).live_pre) /\ id \in DOMAIN sims[r].ob.index)
            => id \in SetOf(sims[r].live_ids)

\* a maker that was filled completely does leave the registry
C17_FilledMakerLeaves ==
  \A r \in Runs :
    \A i \in 1..Len(LastEntry(r).fills) :
      LastEntry(r).fills[i].maker_id \notin DOMAIN sims[r].ob.index
        => LastEntry(r).fills[i].maker_id \notin SetOf(sims[r].live_ids)

(* C18: next_event never returns a Cancel event without a target: a Cancel *)
(* event carries an id taken from the registry; when Cancel is drawn and   *)
(* the registry is empty the event is a LimitBuy or LimitSell with a       *)
(* freshly drawn qty and price, and it is counted as a limit, not as a     *)
(* cancel; when the registry is not empty the event is the Cancel.         *)
C18_CancelHasTarget ==
  \A r \in Runs :
    LET e == LastEntry(r)
    IN  /\ e.ev.type = "Cancel" =>
             /\ e.ev.cancel_id # nullopt
             /\ e.ev.cancel_id[1] \in SetOf(e.live_pre)
        /\ (CancelDrawn(r) /\ e.live_pre = <<>>) =>
             /\ e.ev.type \in {"LimitBuy", "LimitSell"}
             /\ e.ev.qty = e.draws.qty /\ e.ev.qty >= 1
             /\ e.draws.k >= 1
             /\ e.ev.px # nullopt
             /\ e.ev.cancel_id = nullopt
        /\ (CancelDrawn(r) /\ e.live_pre # <<>>) => e.ev.type = "Cancel"
        /\ ~sims[r].failed =>
             /\ sims[r].n_limits =
                  CountTypes(sims[r].trace, {"LimitBuy", "LimitSell"}, Len(sims[r].trace))
             /\ sims[r].n_cancels = CountTypes(sims[r].trace, {"Cancel"}, Len(sims[r].trace))

\* Cancel was drawn with an empty registry and a limit order was sent instead
C18_Witness ==
  \E r \in Runs :
    /\ CancelDrawn(r)
    /\ LastEntry(r).live_pre = <<>>
    /\ LastEntry(r).ev.type = "LimitSell"
    /\ sims[r].n_limits = 1 /\ sims[r].n_cancels = 0

\* Cancel was drawn with a live id and the event cancelled it
C18_WitnessTarget ==
  \E r \in Runs :
    /\ LastEntry(r).ev.type = "Cancel"
    /\ LastEntry(r).ev.cancel_id = Some(1)
    /\ sims[r].live_ids = <<>>
    /\ sims[r].n_cancels = 1

---------------------------------------------------------------------------
\* what run() has done so far is whole iterations, no more than max_events
RunSoFar(r) ==
  /\ ~sims[r].failed
  /\ Len(sims[r].trace) = sims[r].rng.n
  /\ sims[r].n_events = Len(sims[r].trace)
  /\ sims[r].n_events <= sims[r].cfg.max_events
  /\ \A i \in 1..Len(sims[r].trace) : sims[r].trace[i].ev.type \in EventTypes

RunEnded(r) == ~Running(sims[r]) /\ sims[r].n_events = sims[r].cfg.max_events

\* one iteration of the loop of one run: i becomes i + 1
OneIteration ==
  \E r \in DOMAIN sims :
    /\ Running(sims[r])
    /\ sims'[r].rng.n = sims[r].rng.n + 1
    /\ Len(sims'[r].trace) = Len(sims[r].trace) + 1
    /\ \A o \in DOMAIN sims \ {r} : sims'[o] = sims[o]

\* the guards of NextSim: some run has its next iteration to take
CanIterate == FirstDraws # {} \/ SecondDraws # {}

(* C21: Simulator::run performs exactly max_events iterations, each one    *)
(* next_event followed by execute of that event, and then terminates; on   *)
(* termination n_events = max_events.  Termination is stated through the   *)
(* loop counter: every step of a run is one whole iteration that adds one  *)
(* to a counter bounded by max_events, no exception leaves the loop, and a *)
(* run below max_events always has its next iteration to take.             *)
C21_RunTerminates ==
  /\ [](\A r \in DOMAIN sims : RunSoFar(r) /\ (~Running(sims[r]) => RunEnded(r)))
  /\ []((\E r \in DOMAIN sims : Running(sims[r])) => CanIterate)
  /\ [][OneIteration]_vars

\* a run has left its loop after max_events events of more than one kind
C21_Witness ==
  /\ sims # NoSims
  /\ RunEnded(1)
  /\ sims[1].n_events = MaxEvents
  /\ sims[1].n_markets >= 1 /\ sims[1].n_limits >= 1
  /\ Running(sims[2])

---------------------------------------------------------------------------
\* the limit events of run r that were given bucket b
LimitEntries(r, b) == {i \in 1..Len(sims[r].trace) : sims[r].trace[i].bucket = b}

\* the order of event i was the maker of a fill of a later event
WasMaker(r, i) ==
  \E j \in (i + 1)..Len(sims[r].trace) : \E f \in 1..Len(sims[r].trace[j].fills) :
    sims[r].trace[j].fills[f].maker_id = sims[r].trace[i].id

\* the book event i was sent to
BookBefore(r, i) == IF i = 1 THEN Book(<<>>, <<>>, <<>>) ELSE sims[r].trace[i - 1].ob

\* the bucket of the distance of event i's price from the mid at submission
SubmissionBucket(r, i) ==
  LET B == BookBefore(r, i)
      px == sims[r].trace[i].ev.px[1]
      k == Abs(px - mid(B))
  IN  IF DOMAIN B.bids = {} \/ DOMAIN B.asks = {} THEN 0
      ELSE IF k = 0 THEN 0 ELSE IF k <= 2 THEN 1 ELSE IF k <= 5 THEN 2
      ELSE IF k <= 10 THEN 3 ELSE 4

(* C22: each limit order the simulator submits adds one to lim_total[b],   *)
(* b the bucket computed at its submission, and adds one to lim_filled[b]  *)
(* at most once in the run, when it is first the maker of a fill, for the  *)
(* same b: lim_total[b] counts the limit events of bucket b, lim_filled[b] *)
(* those among them whose order was a maker since, and lim_filled[b] <=    *)
(* lim_total[b] after every event.                                         *)
C22_FillBuckets ==
  \A r \in DOMAIN sims :
    /\ \A i \in 1..Len(sims[r].trace) :
         IF sims[r].trace[i].ev.type \in {"LimitBuy", "LimitSell"}
         THEN sims[r].trace[i].bucket = SubmissionBucket(r, i)
         ELSE sims[r].trace[i].bucket = NoBucket
    /\ \A b \in Buckets :
         /\ sims[r].lim_total[b] = Cardinality(LimitEntries(r, b))
         /\ sims[r].lim_filled[b] = Cardinality({i \in LimitEntries(r, b) : WasMaker(r, i)})
         /\ sims[r].lim_filled[b] <= sims[r].lim_total[b]

\* a resting limit order was the maker of two fills, in two events, and was
\* counted once
C22_Witness ==
  /\ sims # NoSims
  /\ Len(sims[1].trace) = 3
  /\ sims[1].trace[2].fills # <<>>
  /\ sims[1].trace[3].fills # <<>>
  /\ sims[1].trace[2].fills[1].maker_id = 1
  /\ sims[1].trace[3].fills[1].maker_id = 1
  /\ sims[1].lim_filled[0] = 1

\* a limit order sent to a two-sided book away from its mid was counted in
\* bucket 1
C22_WitnessBucket ==
  /\ sims # NoSims
  /\ sims[1].lim_total[0] = 2
  /\ sims[1].lim_total[1] = 1
  /\ sims[1].id \in DOMAIN sims[1].lim_bucket_by_id

---------------------------------------------------------------------------
\* cancel was called with the id of a resting order
CancelledResting == last.op = "cancel" /\ last.arg.id \in DOMAIN pre.index

---------------------------------------------------------------------------
\* quantity the fills of the call took from maker id
FilledOf(id) == FilledBefore(id, Len(out) + 1)

\* the orders of queue q in front of position p (1-based) that the call
\* consumed in full
RECURSIVE GoneInFront(_, _)
GoneInFront(q, p) ==
  IF p <= 1 THEN 0
  ELSE (IF FilledOf(q[p - 1].id) = q[p - 1].qty THEN 1 ELSE 0) + GoneInFront(q, p - 1)

\* order o, which rested at place p of level px of side m before the call,
\* is still in the book, unchanged but for the quantity the fills took
Stays(o, m, px, p, taken) ==
  /\ px \in DOMAIN m
  /\ p <= Len(m[px])
  /\ m[px][p] = [o EXCEPT !.qty = o.qty - taken]

C24_OrderGone ==
  IsSubmit =>
    LET s == last.arg.side
        ownPre == OwnSide(preB, s)
        own == OwnSide(cur, s)
        oppPre == OppSide(preB, s)
        opp == OppSide(cur, s)
    IN  /\ \A px \in DOMAIN ownPre : \A p \in 1..Len(ownPre[px]) :
             /\ FilledOf(ownPre[px][p].id) = 0 => Stays(ownPre[px][p], own, px, p, 0)
        /\ \A px \in DOMAIN oppPre : \A p \in 1..Len(oppPre[px]) :
             LET o == oppPre[px][p]
                 taken == FilledOf(o.id)
                 place == p - GoneInFront(oppPre[px], p)
             IN  /\ taken <= o.qty
                 /\ taken < o.qty =>
                      /\ Stays(o, opp, px, place, taken)
                      /\ o.id \in DOMAIN index
                      /\ index[o.id] = [side |-> OppName(s), px |-> px, pos |-> place - 1]
                      /\ taken > 0 => place = 1
                 /\ taken = o.qty =>
                      /\ \A x \in DOMAIN opp : \A i \in 1..Len(opp[x]) : opp[x][i].id # o.id
                      /\ o.id \in DOMAIN index =>
                           (last.id = o.id /\ index[o.id].side = s)
        /\ \A i \in 1..Len(out) : out[i].maker_id \in DOMAIN pre.index


---------------------------------------------------------------------------
(* C25: starting from an empty book, after any sequence of submit_limit,   *)
(* submit_market and cancel calls only (no direct add_limit), the book is  *)
(* never crossed: best_bid < best_ask whenever both sides are non-empty.   *)
C25_EngineNeverCrosses == Uncrossed(cur)

\* a limit buy took the best ask, stopped at the next ask level above its
\* limit and posted its residual: both sides are non-empty after the call
C25_Witness ==
  /\ last.op = "submit_limit"
  /\ last.arg.side = "Buy"
  /\ out # <<>>
  /\ last.id \in DOMAIN index
  /\ DOMAIN asks # {}
  /\ best_bid(cur) = last.arg.limit_price
  /\ Cardinality(DOMAIN pre.asks) = 2

---------------------------------------------------------------------------
\* the ids of queue q grow strictly from front to back
IdsIncrease(q) == \A p \in 1..(Len(q) - 1) : q[p].id < q[p + 1].id

(* C26: when every order enters the book through the engine, then after    *)
(* any sequence of submit_limit, submit_market and cancel the order ids in *)
(* every level queue are strictly increasing from front to back: queue     *)
(* order is submission order, and no cancel or fill reorders the           *)
(* survivors.                                                              *)
C26_QueueIsSubmissionOrder ==
  /\ \A px \in DOMAIN bids : IdsIncrease(bids[px])
  /\ \A px \in DOMAIN asks : IdsIncrease(asks[px])

\* the front order of a level of three was cancelled and two are left
C26_Witness ==
  /\ CancelledResting
  /\ pre.index[last.arg.id].pos = 0
  /\ \E px \in DOMAIN bids : Len(bids[px]) = 2 /\ Len(pre.bids[px]) = 3

\* the front order of a level of two was filled in part and both are left
C26_WitnessFill ==
  /\ IsSubmit
  /\ out # <<>>
  /\ \E px \in DOMAIN asks :
       /\ Len(asks[px]) = 2
       /\ out[1].price = px
       /\ out[1].maker_id = asks[px][1].id

---------------------------------------------------------------------------
\* event i of run r is a Cancel that took its target, a resting order, out
\* of the book and left every other order in it
CancelledOne(r, i) ==
  LET e == sims[r].trace[i]
      before == BookBefore(r, i)
  IN  /\ e.ev.type = "Cancel"
      /\ e.ev.cancel_id # nullopt
      /\ e.ev.cancel_id[1] \in DOMAIN before.index
      /\ DOMAIN e.ob.index = DOMAIN before.index \ {e.ev.cancel_id[1]}
      /\ TotalQty(e.ob.bids) + TotalQty(e.ob.asks) < TotalQty(before.bids) + TotalQty(before.asks)

(* C27: after every executed simulator event every id in the live-id       *)
(* registry is resting in the book (is a key of the book index); hence     *)
(* every executed Cancel event removes exactly one resting order, and      *)
(* n_cancels is the number of orders actually cancelled.                   *)
C27_RegistryRests ==
  \A r \in DOMAIN sims :
    /\ SetOf(sims[r].live_ids) \subseteq DOMAIN sims[r].ob.index
    /\ DOMAIN sims[r].pos = SetOf(sims[r].live_ids)
    /\ \A id \in DOMAIN sims[r].pos : sims[r].live_ids[sims[r].pos[id] + 1] = id
    /\ \A i \in 1..Len(sims[r].trace) :
         sims[r].trace[i].ev.type = "Cancel" => CancelledOne(r, i)
    /\ sims[r].n_cancels =
         Cardinality({i \in 1..Len(sims[r].trace) : CancelledOne(r, i)})

\* a Cancel event took one of two resting orders out of the book
C27_Witness ==
  \E r \in DOMAIN sims :
    /\ Len(sims[r].trace) = 3
    /\ CancelledOne(r, 3)
    /\ sims[r].n_cancels = 1
    /\ Cardinality(DOMAIN sims[r].ob.index) = 1
    /\ sims[r].live_ids # <<>>

---------------------------------------------------------------------------
(* C28: in every state reachable through add_limit, cancel, submit_market  *)
(* and submit_limit, cancel(id) for an id present in the index finds the   *)
(* level at the recorded price and a recorded position inside that level's *)
(* range: the defensive stale-index branches of cancel (erase the index    *)
(* entry and return without touching a level) are never taken.             *)
C28_NoStaleCancel ==
  /\ \A id \in DOMAIN index : ~cancel_stale(cur, id)
  /\ CancelledResting =>
       /\ ~cancel_stale(preB, last.arg.id)
       /\ TotalQty(bids) + TotalQty(asks) < TotalQty(pre.bids) + TotalQty(pre.asks)

\* the order at the back of a level of two was cancelled: its recorded
\* position is the last one inside the range of the level
C28_Witness ==
  /\ CancelledResting
  /\ pre.index[last.arg.id].pos = 1
  /\ Len(OwnSide(preB, pre.index[last.arg.id].side)[pre.index[last.arg.id].px]) = 2
  /\ DOMAIN index # {}

---------------------------------------------------------------------------
\* event i of run r is a limit order whose candidate price crossed and for
\* which keep_cross came out false
PulledBack(r, i) ==
  /\ sims[r].trace[i].ev.type \in {"LimitBuy", "LimitSell"}
  /\ ~sims[r].trace[i].draws.keep

\* the price of event i does not reach the opposite best of the book it is
\* sent to, it trades nothing and its whole quantity rests
RestsWhole(r, i) ==
  LET e == sims[r].trace[i]
      B == BookBefore(r, i)
  IN  /\ IF e.ev.side = "Buy" THEN e.ev.px[1] < best_ask(B) ELSE e.ev.px[1] > best_bid(B)
      /\ e.fills = <<>>
      /\ e.id \in DOMAIN e.ob.index
      /\ e.ob.index[e.id].px = e.ev.px[1]
      /\ TotalQty(OwnSide(e.ob, e.ev.side)) = TotalQty(OwnSide(B, e.ev.side)) + e.ev.qty

(* C29 as stated: when decide_limit_price finds that its candidate price   *)
(* crosses the opposing best and the coin says not to keep the cross, the  *)
(* price it returns does not cross: a pulled-back buy is priced strictly   *)
(* below best_ask and a pulled-back sell strictly above best_bid, so       *)
(* submitting it produces no fill and the whole quantity rests.            *)
C29_Original ==
  \A r \in DOMAIN sims : \A i \in 1..Len(sims[r].trace) :
    PulledBack(r, i) => RestsWhole(r, i)

\* pulled back on a book with orders on both sides, the price does not cross
C29_TwoSided ==
  \A r \in DOMAIN sims : \A i \in 1..Len(sims[r].trace) :
    (/\ PulledBack(r, i)
     /\ DOMAIN BookBefore(r, i).bids # {}
     /\ DOMAIN BookBefore(r, i).asks # {}) => RestsWhole(r, i)

\* a pulled-back buy does not cross
C29_Buy ==
  \A r \in DOMAIN sims : \A i \in 1..Len(sims[r].trace) :
    (PulledBack(r, i) /\ sims[r].trace[i].ev.side = "Buy") => RestsWhole(r, i)

---------------------------------------------------------------------------
(* C30: every LimitBuy / LimitSell event returned by next_event has        *)
(* qty >= 1 and a price >= min_price_ticks, and every MktBuy / MktSell     *)
(* event has qty >= 1; so with min_price_ticks >= 1 no submission made by  *)
(* execute is rejected as an invalid argument during a run.                *)
C30_ValidEvents ==
  \A r \in DOMAIN sims :
    /\ \A i \in 1..Len(sims[r].trace) :
         LET e == sims[r].trace[i].ev
         IN  /\ e.type \in {"LimitBuy", "LimitSell"} =>
                  /\ e.qty >= 1
                  /\ e.px # nullopt
                  /\ e.px[1] >= sims[r].cfg.min_price_ticks
             /\ e.type \in {"MktBuy", "MktSell"} => e.qty >= 1
             /\ (e.type # "Cancel" /\ sims[r].cfg.min_price_ticks >= 1) =>
                  sims[r].trace[i].id >= 1
    /\ sims[r].cfg.min_price_ticks >= 1 => ~sims[r].failed

\* a buy pulled back on a book without bids came out at min(0, ...) and was
\* raised to min_price_ticks, where it was accepted and rests
C30_Witness ==
  \E r \in DOMAIN sims :
    /\ Len(sims[r].trace) = 2
    /\ sims[r].trace[2].ev.type = "LimitBuy"
    /\ sims[r].trace[2].ev.px = Some(sims[r].cfg.min_price_ticks)
    /\ ~sims[r].trace[2].draws.keep
    /\ sims[r].trace[2].id \in DOMAIN sims[r].ob.index

---------------------------------------------------------------------------
RECURSIVE SumBuckets(_, _)
SumBuckets(a, S) ==
  IF S = {} THEN 0
  ELSE LET b == CHOOSE x \in S : TRUE IN a[b] + SumBuckets(a, S \ {b})

\* the fills emitted by the first n events of a run, and their quantities
RECURSIVE FillsEmitted(_, _)
FillsEmitted(trace, n) ==
  IF n = 0 THEN 0 ELSE Len(trace[n].fills) + FillsEmitted(trace, n - 1)

RECURSIVE QtyEmitted(_, _)
QtyEmitted(trace, n) ==
  IF n = 0 THEN 0
  ELSE SumFills(trace[n].fills, Len(trace[n].fills)) + QtyEmitted(trace, n - 1)

(* C31: after every executed simulator event the counters are mutually     *)
(* consistent: n_events = n_limits + n_markets + n_cancels, the sum of     *)
(* lim_total over the five buckets equals n_limits, n_trades equals the    *)
(* total number of fills emitted so far, vol_traded equals the sum of      *)
(* their quantities, and mid_samples <= n_events (mid_samples counts the   *)
(* events that left orders on both sides).                                 *)
C31_CountersConsistent ==
  \A r \in DOMAIN sims :
    LET sim == sims[r]
        n == Len(sim.trace)
    IN  /\ sim.n_events = n
        /\ sim.n_events = sim.n_limits + sim.n_markets + sim.n_cancels
        /\ SumBuckets(sim.lim_total, Buckets) = sim.n_limits
        /\ sim.n_trades = FillsEmitted(sim.trace, n)
        /\ sim.vol_traded = QtyEmitted(sim.trace, n)
        /\ sim.mid_samples <= sim.n_events
        /\ sim.mid_samples =
             Cardinality({i \in 1..n : /\ DOMAIN sim.trace[i].ob.bids # {}
                                       /\ DOMAIN sim.trace[i].ob.asks # {}})

\* a market order was filled by two makers in one event, after an event
\* that left only one side of the book
C31_Witness ==
  \E r \in DOMAIN sims :
    /\ Len(sims[r].trace) = 3
    /\ sims[r].trace[3].ev.type \in {"MktBuy", "MktSell"}
    /\ Len(sims[r].trace[3].fills) = 2
    /\ sims[r].n_trades = 2
    /\ sims[r].vol_traded = 2
    /\ sims[r].mid_samples < sims[r].n_events

===========================================================================
